---------------------------- MODULE Spec2Model ----------------------------
(***************************************************************************)
(* Model of the core of "arboles": the L-System string generator (class    *)
(* LSystem) and the turtle-graphics interpreter (class TurtleGraphics).    *)
(*                                                                         *)
(* Strings are sequences of one-character strings.  Vectors are triples of *)
(* integers: lengths and colors are counted in hundredths (0.08 is 8), and *)
(* rotation angles are whole multiples of 90 degrees, for which Rodrigues' *)
(* formula is exact over the integers.  Widths are exact fractions         *)
(* <<numerator, denominator>>.                                             *)
(***************************************************************************)
EXTENDS Integers, Sequences, FiniteSets

VARIABLES
    lsys,      \* the LSystem object: axiom, rules, currentString, angle, currentGeneration
    lastCall,  \* the last public LSystem call, its argument and the object before it
    tg,        \* the TurtleGraphics object (m_ fields)
    pc,        \* "idle", "running" (inside interpret()) or "returned" (interpret() has
               \* just returned and nothing was called since)
    input,     \* lsystemString of the running / last interpret() call
    angleArg,  \* angle of the running / last interpret() call
    pos,       \* index of the next command of the for loop of interpret()
    history,   \* history[i]: snapshot taken before command i was processed
    runs,      \* number of interpret() calls started so far
    entryDepth \* size of m_stateStack when the running / last interpret() was called

vars == <<lsys, lastCall, tg, pc, input, angleArg, pos, history, runs, entryDepth>>

lsysVars == <<lsys, lastCall>>
turtleVars == <<tg, pc, input, angleArg, pos, history, runs, entryDepth>>

-----------------------------------------------------------------------------
(* Bounds of the exploration *)

MaxGen == 4
MaxLen == 2
MaxBranchLen == 4
MaxRerunLen == 2
MaxRuns == 2
MaxWidthLen == 4
MaxLoadGen == 2
MaxUIGen == 2
MaxPresses == 2
MaxShifts == 21
MaxLoopLen == 3
MaxPlantGen == 1

-----------------------------------------------------------------------------
(* Strings *)

RECURSIVE StringsUpTo(_, _)
StringsUpTo(alphabet, n) ==
    IF n = 0 THEN {<<>>}
    ELSE LET shorter == StringsUpTo(alphabet, n - 1)
         IN  shorter \cup {Append(s, c) : s \in shorter, c \in alphabet}

-----------------------------------------------------------------------------
(* LSystem *)

LSymbols == {"A", "B"}
AxiomValues == {<<"A">>, <<"B">>, <<"A", "B">>}
ReplacementValues == {<<>>, <<"A">>, <<"A", "B">>, <<"B", "B">>}
LSystemAngles == {0, 90}
EmptyRules == [c \in {} |-> <<>>]

\* LSystem::LSystem()
LSystemCtor ==
    [axiom |-> <<>>, rules |-> EmptyRules, currentString |-> <<>>,
     angle |-> 0, currentGeneration |-> 0]

\* the inner loop without its else branch: symbols that have no rule are lost
RECURSIVE RewriteLoopDropsConstants(_, _, _, _)
RewriteLoopDropsConstants(currentString, rules, i, nextString) ==
    IF i > Len(currentString) THEN nextString
    ELSE LET symbol == currentString[i]
         IN  IF symbol \in DOMAIN rules
             THEN RewriteLoopDropsConstants(currentString, rules, i + 1,
                                            nextString \o rules[symbol])
             ELSE RewriteLoopDropsConstants(currentString, rules, i + 1, nextString)

\* the inner loop of generate(): for (char symbol : currentString)
RECURSIVE RewriteLoop(_, _, _, _)
RewriteLoop(currentString, rules, i, nextString) ==
    IF i > Len(currentString) THEN nextString
    ELSE LET symbol == currentString[i]
         IN  IF symbol \in DOMAIN rules
             THEN RewriteLoop(currentString, rules, i + 1, nextString \o rules[symbol])
             ELSE RewriteLoop(currentString, rules, i + 1, Append(nextString, symbol))

\* a generation loop that runs once too often
RECURSIVE GenerationLoopOffByOne(_, _, _)
GenerationLoopOffByOne(e, gen, generations) ==
    IF gen <= generations
    THEN GenerationLoopOffByOne(
             [e EXCEPT !.currentString = RewriteLoop(e.currentString, e.rules, 1, <<>>),
                       !.currentGeneration = @ + 1],
             gen + 1, generations)
    ELSE e

\* the outer loop of generate(): for (int gen = 0; gen < generations; gen++)
RECURSIVE GenerationLoop(_, _, _)
GenerationLoop(e, gen, generations) ==
    IF gen < generations
    THEN GenerationLoop(
             [e EXCEPT !.currentString = RewriteLoop(e.currentString, e.rules, 1, <<>>),
                       !.currentGeneration = @ + 1],
             gen + 1, generations)
    ELSE e

\* generate() without the reset to the axiom: it rewrites the string left by
\* the previous call
generateIncremental(e, generations) ==
    GenerationLoop(e, 0, generations)

\* generate() that stores the requested count instead of counting its passes
generateStoresRequested(e, generations) ==
    [GenerationLoop([e EXCEPT !.currentString = e.axiom, !.currentGeneration = 0],
                    0, generations)
        EXCEPT !.currentGeneration = generations]

\* LSystem::generate
generate(e, generations) ==
    GenerationLoop([e EXCEPT !.currentString = e.axiom, !.currentGeneration = 0],
                   0, generations)

\* LSystem::getString, LSystem::getGeneration, LSystem::getAxiom, LSystem::getAngle
getString(e) == e.currentString
getGeneration(e) == e.currentGeneration
getAxiom(e) == e.axiom
getAngle(e) == e.angle

\* reset() that forgets to zero the generation counter
resetKeepsGeneration(e) == [e EXCEPT !.currentString = e.axiom]

\* LSystem::reset
reset(e) == [e EXCEPT !.currentString = e.axiom, !.currentGeneration = 0]

\* LSystem::setAxiom
setAxiom(e, newAxiom) ==
    [e EXCEPT !.axiom = newAxiom, !.currentString = newAxiom, !.currentGeneration = 0]

\* LSystem::setAngle
setAngle(e, newAngle) == [e EXCEPT !.angle = newAngle]

\* LSystem::addRule: rules[symbol] = replacement
addRule(e, symbol, replacement) ==
    [e EXCEPT !.rules = [c \in DOMAIN e.rules \cup {symbol} |->
                            IF c = symbol THEN replacement ELSE e.rules[c]]]

\* clearRules() that also goes back to the axiom
clearRulesAndReset(e) ==
    [e EXCEPT !.rules = EmptyRules, !.currentString = e.axiom, !.currentGeneration = 0]

\* LSystem::clearRules
clearRules(e) == [e EXCEPT !.rules = EmptyRules]

CallSetAxiom ==
    \E s \in AxiomValues :
        /\ lsys' = setAxiom(lsys, s)
        /\ lastCall' = [op |-> "setAxiom", n |-> 0, pre |-> lsys]
        /\ UNCHANGED turtleVars

CallAddRule ==
    \E c \in LSymbols, r \in ReplacementValues :
        /\ lsys' = addRule(lsys, c, r)
        /\ lastCall' = [op |-> "addRule", n |-> 0, pre |-> lsys]
        /\ UNCHANGED turtleVars

CallClearRules ==
    /\ lsys' = clearRules(lsys)
    /\ lastCall' = [op |-> "clearRules", n |-> 0, pre |-> lsys]
    /\ UNCHANGED turtleVars

CallSetAngle ==
    \E a \in LSystemAngles :
        /\ lsys' = setAngle(lsys, a)
        /\ lastCall' = [op |-> "setAngle", n |-> 0, pre |-> lsys]
        /\ UNCHANGED turtleVars

CallGenerate(maxGen) ==
    \E n \in -1 .. maxGen :
        /\ lsys' = generate(lsys, n)
        /\ lastCall' = [op |-> "generate", n |-> n, pre |-> lsys]
        /\ UNCHANGED turtleVars

CallReset ==
    /\ lsys' = reset(lsys)
    /\ lastCall' = [op |-> "reset", n |-> 0, pre |-> lsys]
    /\ UNCHANGED turtleVars

-----------------------------------------------------------------------------
(* std::string operations; positions are 0-based as in C++ *)

\* std::string::npos, compared only for equality
npos == -1

MinOf(S) == CHOOSE i \in S : \A j \in S : i <= j

\* str.substr(p) and str.substr(p, count)
substr(str, p) == SubSeq(str, p + 1, Len(str))
substrCount(str, p, count) ==
    SubSeq(str, p + 1, IF p + count < Len(str) THEN p + count ELSE Len(str))

\* str.find(pattern, from): the first occurrence at or after from, or npos
find(str, pattern, from) ==
    LET hits == {i \in from .. (Len(str) - Len(pattern)) :
                     SubSeq(str, i + 1, i + Len(pattern)) = pattern}
    IN  IF hits = {} THEN npos ELSE MinOf(hits)

\* str.find_first_not_of(chars)
find_first_not_of(str, chars) ==
    LET hits == {i \in 0 .. (Len(str) - 1) : str[i + 1] \notin chars}
    IN  IF hits = {} THEN npos ELSE MinOf(hits)

\* std::min on two size_t values, npos being the largest size_t
minSizeT(a, b) ==
    IF a = npos THEN b ELSE IF b = npos THEN a ELSE IF a < b THEN a ELSE b

Blanks == {" ", "\t"}
Arrow == <<"-", ">">>
AxiomPrefix == <<"a", "x", "i", "o", "m", ":">>
AnglePrefix == <<"a", "n", "g", "l", "e", ":">>
PREFIX_LENGTH == 6
ARROW_LENGTH == 2

DigitChars == <<"0", "1", "2", "3", "4", "5", "6", "7", "8", "9">>
DigitValue(c) == (CHOOSE i \in 1 .. 10 : DigitChars[i] = c) - 1
IsDigit(c) == \E i \in 1 .. 10 : DigitChars[i] = c

\* the value of a run of decimal digits
RECURSIVE DigitsValue(_, _)
DigitsValue(digits, acc) ==
    IF digits = <<>> THEN acc
    ELSE DigitsValue(Tail(digits), 10 * acc + DigitValue(Head(digits)))

\* std::stof on texts made of blanks, a sign, digits and other characters
\* (no '.', exponent, "inf" or "nan"): leading whitespace is skipped, the
\* longest digit run after an optional sign is converted and the rest is
\* ignored; with no digit there std::invalid_argument is thrown
stof(str) ==
    LET start == find_first_not_of(str, Blanks)
        body == IF start = npos THEN <<>> ELSE substr(str, start)
        signed == body # <<>> /\ Head(body) \in {"-", "+"}
        rest == IF signed THEN Tail(body) ELSE body
        stop == {i \in 0 .. (Len(rest) - 1) : ~IsDigit(rest[i + 1])}
        count == IF stop = {} THEN Len(rest) ELSE MinOf(stop)
        value == DigitsValue(SubSeq(rest, 1, count), 0)
    IN  IF count = 0 THEN [threw |-> TRUE, value |-> 0]
        ELSE [threw |-> FALSE, value |-> IF signed /\ Head(body) = "-" THEN -value ELSE value]

\* loadRules that treats every non-blank line as a possible rule line
loadRulesLineNoPrefixes(e, rawLine) ==
    LET start == find_first_not_of(rawLine, Blanks)
        line == substr(rawLine, start)
        arrowPos == find(line, Arrow, 0)
    IN  IF start = npos THEN [e |-> e, threw |-> FALSE]
        ELSE IF arrowPos # npos /\ arrowPos > 0
        THEN [e |-> addRule(e, line[1], substr(line, arrowPos + ARROW_LENGTH)),
              threw |-> FALSE]
        ELSE [e |-> e, threw |-> FALSE]

\* the body of the while loop of loadRules for one line of the file
loadRulesLine(e, rawLine) ==
    LET start == find_first_not_of(rawLine, Blanks)
        line == substr(rawLine, start)
    IN  IF start = npos THEN [e |-> e, threw |-> FALSE]
        ELSE IF find(line, AxiomPrefix, 0) = 0
        THEN LET rest == substr(line, PREFIX_LENGTH)
                 first == find_first_not_of(rest, Blanks)
                 \* axiom.erase(0, npos) erases the whole string
                 newAxiom == IF first = npos THEN <<>> ELSE substr(rest, first)
             IN  [e |-> [e EXCEPT !.axiom = newAxiom, !.currentString = newAxiom],
                  threw |-> FALSE]
        ELSE IF find(line, AnglePrefix, 0) = 0
        THEN LET parsed == stof(substr(line, PREFIX_LENGTH))
             IN  IF parsed.threw THEN [e |-> e, threw |-> TRUE]
                 ELSE [e |-> [e EXCEPT !.angle = parsed.value], threw |-> FALSE]
        ELSE LET arrowPos == find(line, Arrow, 0)
             IN  IF arrowPos # npos /\ arrowPos > 0
                 THEN [e |-> addRule(e, line[1], substr(line, arrowPos + ARROW_LENGTH)),
                       threw |-> FALSE]
                 ELSE [e |-> e, threw |-> FALSE]

\* while (std::getline(file, line)): stops at the end of the file or when a
\* line throws
RECURSIVE loadRulesLoop(_, _, _)
loadRulesLoop(e, lines, i) ==
    IF i > Len(lines) THEN [e |-> e, threw |-> FALSE]
    ELSE LET step == loadRulesLine(e, lines[i])
         IN  IF step.threw THEN step ELSE loadRulesLoop(step.e, lines, i + 1)

\* loadRules that clears the rules before it tries to open the file
loadRulesClearsFirst(e, file) ==
    IF ~file.exists THEN [e |-> [e EXCEPT !.rules = EmptyRules], result |-> "false"]
    ELSE LET loop == loadRulesLoop([e EXCEPT !.rules = EmptyRules], file.lines, 1)
         IN  IF loop.threw THEN [e |-> loop.e, result |-> "exception"]
             ELSE [e |-> [loop.e EXCEPT !.currentGeneration = 0], result |-> "true"]

\* LSystem::loadRules: the engine afterwards and how the call ended ("true",
\* "false", or "exception" when std::stof threw out of it)
loadRules(e, file) ==
    IF ~file.exists THEN [e |-> e, result |-> "false"]
    ELSE LET loop == loadRulesLoop([e EXCEPT !.rules = EmptyRules], file.lines, 1)
         IN  IF loop.threw THEN [e |-> loop.e, result |-> "exception"]
             ELSE [e |-> [loop.e EXCEPT !.currentGeneration = 0], result |-> "true"]

\* the Koch curve
KochFile ==
    <<<<"a", "x", "i", "o", "m", ":", " ", "F">>,
      <<"a", "n", "g", "l", "e", ":", " ", "9", "0">>,
      <<"F", "-", ">", "F", "+", "F", "-", "-", "F", "+", "F">>>>

\* the algae system, with a blank line
AlgaeFile ==
    <<<<"a", "x", "i", "o", "m", ":", " ", "A">>,
      <<>>,
      <<"A", "-", ">", "A", "B">>,
      <<"B", "-", ">", "A">>>>

\* no axiom line; rule lines of every shape
RulesOnlyFile ==
    <<<<" ", " ", "A", "-", ">", "B", "-", ">", "C">>,
      <<"-", ">", "A">>,
      <<"-", ">", "A", "-", ">", "B">>,
      <<" ", "\t">>,
      <<"A", "B">>,
      <<"B", "-", ">">>>>

\* an angle that is not a number
BadAngleFile ==
    <<<<"a", "x", "i", "o", "m", ":", " ", "A", "B">>,
      <<"a", "n", "g", "l", "e", ":", " ", "x">>,
      <<"A", "-", ">", "B">>>>

\* an arrow inside an axiom and an angle line; a key given twice
PrefixFile ==
    <<<<"a", "x", "i", "o", "m", ":", " ", "A", "-", ">", "B">>,
      <<"a", "n", "g", "l", "e", ":", "9", "0", "-", ">", "A">>,
      <<"\t", " ", "B", "-", ">", "B", "B">>,
      <<"B", "-", ">", "A">>>>

\* an axiom of blanks only
BlankAxiomFile ==
    <<<<"a", "x", "i", "o", "m", ":", " ", " ">>,
      <<"a", "n", "g", "l", "e", ":", " ", "0">>,
      <<"B", "-", ">", "B", "B">>>>

\* the files loadRules is called on: a name that cannot be opened, an empty
\* file and the files above
Files ==
    {[exists |-> FALSE, lines |-> <<>>], [exists |-> TRUE, lines |-> <<>>]}
        \cup {[exists |-> TRUE, lines |-> lines] :
                 lines \in {KochFile, AlgaeFile, RulesOnlyFile, BadAngleFile, PrefixFile, BlankAxiomFile}}

CallLoadRules ==
    \E file \in Files :
        /\ lsys' = loadRules(lsys, file).e
        /\ lastCall' = [op |-> "loadRules", n |-> 0, pre |-> lsys, file |-> file,
                        result |-> loadRules(lsys, file).result]
        /\ UNCHANGED turtleVars

-----------------------------------------------------------------------------
(* Vectors (glm::vec3 with integer components) and fractions *)

Zero3 == <<0, 0, 0>>
NaN3 == <<"nan", "nan", "nan">>

VAdd(a, b) == <<a[1] + b[1], a[2] + b[2], a[3] + b[3]>>
VScale(v, k) == <<v[1] * k, v[2] * k, v[3] * k>>
Dot(a, b) == a[1] * b[1] + a[2] * b[2] + a[3] * b[3]
Cross(a, b) ==
    <<a[2] * b[3] - a[3] * b[2], a[3] * b[1] - a[1] * b[3], a[1] * b[2] - a[2] * b[1]>>

\* glm::normalize: v / |v|; the zero vector has no direction (NaN components)
Normalize(v) ==
    IF Dot(v, v) = 0 THEN NaN3
    ELSE LET n == CHOOSE k \in 1 .. Dot(v, v) : k * k = Dot(v, v)
         IN  <<v[1] \div n, v[2] \div n, v[3] \div n>>

\* std::cos and std::sin of glm::radians(angleDeg), angleDeg a multiple of 90
CosDeg(angleDeg) ==
    CASE angleDeg % 360 = 0 -> 1
      [] angleDeg % 360 = 90 -> 0
      [] angleDeg % 360 = 180 -> -1
      [] angleDeg % 360 = 270 -> 0

SinDeg(angleDeg) ==
    CASE angleDeg % 360 = 0 -> 0
      [] angleDeg % 360 = 90 -> 1
      [] angleDeg % 360 = 180 -> 0
      [] angleDeg % 360 = 270 -> -1

\* a * b for fractions <<numerator, denominator>>
FracMul(a, b) == <<a[1] * b[1], a[2] * b[2]>>

-----------------------------------------------------------------------------
(* TurtleGraphics *)

DrawSymbols == {"F", "G", "A", "B"}
LeafSymbols == {"L", "l"}
FlowerSymbols == {"K", "k"}
PitchRollSymbols == {"&", "^", "\\", "/"}
Commands ==
    DrawSymbols \cup LeafSymbols \cup FlowerSymbols \cup PitchRollSymbols
        \cup {"f", "+", "-", "|", "[", "]", "!", "'"}
Variables == {"X", "Y", "S"}
Vocabulary == Commands \cup Variables

\* struct TurtleState, default member initializers
TurtleStateDefault ==
    [position |-> <<0, 0, 0>>,
     heading |-> <<0, 1, 0>>,
     left |-> <<-1, 0, 0>>,
     up |-> <<0, 0, 1>>,
     width |-> <<2, 100>>,
     color |-> <<45, 30, 15>>,
     depth |-> 0]

\* TurtleGraphics::TurtleGraphics(): the default member initializers
TurtleGraphicsCtor ==
    [m_is3D |-> FALSE,
     m_currentState |-> TurtleStateDefault,
     m_stateStack |-> <<>>,
     m_branches |-> <<>>,
     m_decorations |-> <<>>,
     m_leaves |-> <<>>,
     m_flowers |-> <<>>,
     m_stepSize |-> 8,
     m_initialWidth |-> <<2, 100>>,
     m_widthDecay |-> <<7, 10>>,
     m_leafSize |-> <<8, 100>>,
     m_branchColor |-> <<40, 25, 10>>,
     m_leafColor |-> <<15, 55, 15>>,
     m_flowerColor |-> <<100, 45, 70>>]

\* TurtleGraphics::rotateAroundAxis (Rodrigues' rotation formula)
rotateAroundAxis(vec, axis, angleDeg) ==
    LET cosA == CosDeg(angleDeg)
        sinA == SinDeg(angleDeg)
        k == Normalize(axis)
    IN  VAdd(VAdd(VScale(vec, cosA), VScale(Cross(k, vec), sinA)),
             VScale(k, Dot(k, vec) * (1 - cosA)))

\* the orientation matrix of a decoration: columns right, forward, up
Orientation(s) ==
    LET forward == Normalize(s.heading)
        c == Cross(forward, s.up)
        right == Normalize(c)
        up == IF Dot(c, c) = 0 THEN NaN3 ELSE Cross(right, forward)
    IN  <<right, forward, up>>

\* m_is3D ? m_currentState.up : glm::vec3(0, 0, 1)
YawAxis(t) == IF t.m_is3D THEN t.m_currentState.up ELSE <<0, 0, 1>>

Min(a, b) == IF a < b THEN a ELSE b
Max(a, b) == IF a > b THEN a ELSE b

\* case 'F', 'G', 'A', 'B' with the position advanced before the record is
\* filled in
drawForwardMoveFirst(t) ==
    LET s == t.m_currentState
        endPos == VAdd(s.position, VScale(s.heading, t.m_stepSize))
        branch == [start |-> endPos,
                   end |-> endPos,
                   radiusStart |-> s.width,
                   radiusEnd |-> FracMul(s.width, t.m_widthDecay),
                   color |-> s.color]
    IN  [t EXCEPT !.m_branches = Append(@, branch),
                  !.m_currentState.position = endPos]

\* case 'F', 'G', 'A', 'B' with a record that does not taper
drawForwardNoTaper(t) ==
    LET s == t.m_currentState
        endPos == VAdd(s.position, VScale(s.heading, t.m_stepSize))
        branch == [start |-> s.position,
                   end |-> endPos,
                   radiusStart |-> s.width,
                   radiusEnd |-> s.width,
                   color |-> s.color]
    IN  [t EXCEPT !.m_branches = Append(@, branch),
                  !.m_currentState.position = endPos]

\* case 'F', 'G', 'A', 'B': move forward and draw a branch segment
drawForward(t) ==
    LET s == t.m_currentState
        endPos == VAdd(s.position, VScale(s.heading, t.m_stepSize))
        branch == [start |-> s.position,
                   end |-> endPos,
                   radiusStart |-> s.width,
                   radiusEnd |-> FracMul(s.width, t.m_widthDecay),
                   color |-> s.color]
    IN  [t EXCEPT !.m_branches = Append(@, branch),
                  !.m_currentState.position = endPos]

\* case 'f': move forward without drawing
moveForward(t) ==
    LET s == t.m_currentState
    IN  [t EXCEPT !.m_currentState.position =
                      VAdd(s.position, VScale(s.heading, t.m_stepSize))]

\* case '+' (angleDeg = angle), '-' (angleDeg = -angle)
yaw(t, angleDeg) ==
    LET s == t.m_currentState
        axis == YawAxis(t)
    IN  [t EXCEPT !.m_currentState.heading = rotateAroundAxis(s.heading, axis, angleDeg),
                  !.m_currentState.left = rotateAroundAxis(s.left, axis, angleDeg)]

\* case '|' that always turns about the fixed vertical axis
turnAroundFixedAxis(t) ==
    LET s == t.m_currentState
    IN  [t EXCEPT !.m_currentState.heading = rotateAroundAxis(s.heading, <<0, 0, 1>>, 180),
                  !.m_currentState.left = rotateAroundAxis(s.left, <<0, 0, 1>>, 180)]

\* case '|': turn around, 180 degrees about the yaw axis
turnAround(t) ==
    LET s == t.m_currentState
        axis == YawAxis(t)
    IN  [t EXCEPT !.m_currentState.heading = rotateAroundAxis(s.heading, axis, 180),
                  !.m_currentState.left = rotateAroundAxis(s.left, axis, 180)]

\* case '&' (angleDeg = angle), '^' (angleDeg = -angle)
pitch(t, angleDeg) ==
    LET s == t.m_currentState
    IN  [t EXCEPT !.m_currentState.heading = rotateAroundAxis(s.heading, s.left, angleDeg),
                  !.m_currentState.up = rotateAroundAxis(s.up, s.left, angleDeg)]

\* case '\\' (angleDeg = angle), '/' (angleDeg = -angle)
roll(t, angleDeg) ==
    LET s == t.m_currentState
    IN  [t EXCEPT !.m_currentState.left = rotateAroundAxis(s.left, s.heading, angleDeg),
                  !.m_currentState.up = rotateAroundAxis(s.up, s.heading, angleDeg)]

\* case '[' with the push after the depth and width updates
pushStateAfterDecay(t) ==
    LET s == [t.m_currentState EXCEPT !.depth = @ + 1,
                                      !.width = FracMul(@, t.m_widthDecay)]
    IN  [t EXCEPT !.m_stateStack = Append(@, s),
                  !.m_currentState = s]

\* case '[' without the depth increment
pushStateKeepsDepth(t) ==
    [t EXCEPT !.m_stateStack = Append(@, t.m_currentState),
              !.m_currentState.width = FracMul(@, t.m_widthDecay)]

\* case '[' without the width decay
pushStateKeepsWidth(t) ==
    [t EXCEPT !.m_stateStack = Append(@, t.m_currentState),
              !.m_currentState.depth = @ + 1]

\* case '[': push the current state, then depth++ and width *= m_widthDecay
pushState(t) ==
    [t EXCEPT !.m_stateStack = Append(@, t.m_currentState),
              !.m_currentState.depth = @ + 1,
              !.m_currentState.width = FracMul(@, t.m_widthDecay)]

\* case ']' without the emptiness test: an empty stack yields a
\* default-constructed state
popStateUnguarded(t) ==
    IF t.m_stateStack # <<>>
    THEN [t EXCEPT !.m_currentState = t.m_stateStack[Len(t.m_stateStack)],
                   !.m_stateStack = SubSeq(@, 1, Len(@) - 1)]
    ELSE [t EXCEPT !.m_currentState = TurtleStateDefault]

\* case ']': pop the top state into the current state if the stack is not empty
popState(t) ==
    IF t.m_stateStack # <<>>
    THEN [t EXCEPT !.m_currentState = t.m_stateStack[Len(t.m_stateStack)],
                   !.m_stateStack = SubSeq(@, 1, Len(@) - 1)]
    ELSE t

\* case 'L', 'l': create a leaf
addLeaf(t) ==
    LET s == t.m_currentState
        leaf == [position |-> s.position,
                 orientation |-> Orientation(s),
                 color |-> t.m_leafColor,
                 size |-> t.m_leafSize,
                 type |-> 0]
    IN  [t EXCEPT !.m_decorations = Append(@, leaf)]

\* case 'K', 'k' with the type tag of the leaf case it was copied from
addFlowerTaggedLeaf(t) ==
    LET s == t.m_currentState
        flower == [position |-> s.position,
                   orientation |-> Orientation(s),
                   color |-> t.m_flowerColor,
                   size |-> FracMul(t.m_leafSize, <<15, 10>>),
                   type |-> 0]
    IN  [t EXCEPT !.m_decorations = Append(@, flower)]

\* case 'K', 'k': create a flower
addFlower(t) ==
    LET s == t.m_currentState
        flower == [position |-> s.position,
                   orientation |-> Orientation(s),
                   color |-> t.m_flowerColor,
                   size |-> FracMul(t.m_leafSize, <<15, 10>>),
                   type |-> 1]
    IN  [t EXCEPT !.m_decorations = Append(@, flower)]

\* case '!': decrease width
decreaseWidth(t) ==
    [t EXCEPT !.m_currentState.width = FracMul(@, t.m_widthDecay)]

\* case '\'' without the std::min / std::max clamps
shiftColorUnclamped(t) ==
    LET color == t.m_currentState.color
    IN  [t EXCEPT !.m_currentState.color = <<color[1] - 2, color[2] + 5, color[3]>>]

\* case '\'': shift color toward green (+0.05 green, -0.02 red, clamped)
shiftColor(t) ==
    LET color == t.m_currentState.color
    IN  [t EXCEPT !.m_currentState.color =
                      <<Max(0, color[1] - 2), Min(100, color[2] + 5), color[3]>>]

\* a default case that falls into the move-forward code
ignoreSymbolMoves(t) == moveForward(t)

\* default: variables and unknown symbols are ignored
ignoreSymbol(t) == t

\* TurtleGraphics::processCommand: the switch
processCommand(t, cmd, angle) ==
    CASE cmd \in DrawSymbols -> drawForward(t)
      [] cmd = "f" -> moveForward(t)
      [] cmd = "+" -> yaw(t, angle)
      [] cmd = "-" -> yaw(t, -angle)
      [] cmd = "&" -> pitch(t, angle)
      [] cmd = "^" -> pitch(t, -angle)
      [] cmd = "\\" -> roll(t, angle)
      [] cmd = "/" -> roll(t, -angle)
      [] cmd = "|" -> turnAround(t)
      [] cmd = "[" -> pushState(t)
      [] cmd = "]" -> popState(t)
      [] cmd \in LeafSymbols -> addLeaf(t)
      [] cmd \in FlowerSymbols -> addFlower(t)
      [] cmd = "!" -> decreaseWidth(t)
      [] cmd = "'" -> shiftColor(t)
      [] OTHER -> ignoreSymbol(t)

\* TurtleGraphics::clear
clear(t) == [t EXCEPT !.m_branches = <<>>, !.m_decorations = <<>>]

\* interpret() without the loop that empties the stack
interpretBeginKeepsStack(t) ==
    [clear(t) EXCEPT
        !.m_currentState = [TurtleStateDefault EXCEPT !.width = t.m_initialWidth,
                                                      !.color = t.m_branchColor]]

\* interpret(), up to its for loop: clear(), reset the turtle, empty the stack
interpretBegin(t) ==
    [clear(t) EXCEPT
        !.m_currentState = [TurtleStateDefault EXCEPT !.width = t.m_initialWidth,
                                                      !.color = t.m_branchColor],
        !.m_stateStack = <<>>]

\* TurtleGraphics::uploadDecorationData: the split into leaves and flowers
IsLeaf(decor) == decor.type = 0
IsFlower(decor) == decor.type # 0

uploadDecorationData(t) ==
    IF t.m_decorations = <<>> THEN t
    ELSE [t EXCEPT !.m_leaves = SelectSeq(t.m_decorations, IsLeaf),
                   !.m_flowers = SelectSeq(t.m_decorations, IsFlower)]

\* interpret(), after its for loop: uploadBranchData() only writes GPU buffers
interpretEnd(t) == uploadDecorationData(t)

\* the for loop of interpret() from command i on
RECURSIVE interpretLoop(_, _, _, _)
interpretLoop(t, lsystemString, i, angle) ==
    IF i > Len(lsystemString) THEN t
    ELSE interpretLoop(processCommand(t, lsystemString[i], angle), lsystemString, i + 1, angle)

\* TurtleGraphics::interpret
interpret(t, lsystemString, angle) ==
    interpretEnd(interpretLoop(interpretBegin(t), lsystemString, 1, angle))

\* what an interpretation run leaves for inspection and rendering
Snap(t) ==
    [m_currentState |-> t.m_currentState,
     m_stateStack |-> t.m_stateStack,
     m_branches |-> t.m_branches,
     m_decorations |-> t.m_decorations]

Angles == {90, 180}
RerunAngles == {90}
BranchingSymbols == {"F", "+", "[", "]", "L", "X"}
RerunSymbols == {"F", "[", "]", "K", "L"}

Examples ==
    { <<"F", "[", "+", "F", "]", "[", "-", "F", "]", "F">>,
      <<"[", "+", "F", "]", "F">>,
      <<"F", "[", "[", "+", "F", "]", "&", "F", "]", "F">>,
      <<"F", "X", "[", "Y", "+", "F", "]", "S", "F">>,
      <<"A", "[", "G", "]", "]", "B">> }

TurtleInputs ==
    StringsUpTo(Vocabulary, MaxLen) \cup StringsUpTo(BranchingSymbols, MaxBranchLen)
        \cup Examples

RerunInputs == StringsUpTo(RerunSymbols, MaxRerunLen)

\* interpret(lsystemString, angle) is called and reaches its for loop
InterpretBegin(inputs, angles, maxRuns) ==
    /\ pc \in {"idle", "returned"}
    /\ runs < maxRuns
    /\ \E lsystemString \in inputs, angle \in angles :
           /\ input' = lsystemString
           /\ angleArg' = angle
    /\ tg' = interpretBegin(tg)
    /\ pc' = "running"
    /\ pos' = 1
    /\ history' = <<Snap(tg')>>
    /\ runs' = runs + 1
    /\ entryDepth' = Len(tg.m_stateStack)
    /\ UNCHANGED lsysVars

\* a loop iteration that gives up on a ']' that finds the stack empty
InterpretStepAbortsOnDanglingPop ==
    /\ pc = "running"
    /\ pos <= Len(input)
    /\ IF input[pos] = "]" /\ tg.m_stateStack = <<>>
       THEN /\ pc' = "aborted"
            /\ UNCHANGED <<tg, pos, history>>
       ELSE /\ tg' = processCommand(tg, input[pos], angleArg)
            /\ pos' = pos + 1
            /\ history' = Append(history, Snap(tg'))
            /\ pc' = pc
    /\ UNCHANGED <<input, angleArg, runs, entryDepth>>
    /\ UNCHANGED lsysVars

\* one iteration of the for loop: processCommand(cmd, angle)
InterpretStep ==
    /\ pc = "running"
    /\ pos <= Len(input)
    /\ tg' = processCommand(tg, input[pos], angleArg)
    /\ pos' = pos + 1
    /\ history' = Append(history, Snap(tg'))
    /\ UNCHANGED <<pc, input, angleArg, runs, entryDepth>>
    /\ UNCHANGED lsysVars

\* the loop is over: upload the geometry and return
InterpretEnd ==
    /\ pc = "running"
    /\ pos > Len(input)
    /\ tg' = interpretEnd(tg)
    /\ pc' = "returned"
    /\ UNCHANGED <<input, angleArg, pos, history, runs, entryDepth>>
    /\ UNCHANGED lsysVars

\* TurtleGraphics::set3DMode
CallSet3DMode ==
    /\ pc \in {"idle", "returned"}
    /\ \E enable \in BOOLEAN : tg' = [tg EXCEPT !.m_is3D = enable]
    /\ pc' = "idle"
    /\ UNCHANGED <<input, angleArg, pos, history, runs, entryDepth>>
    /\ UNCHANGED lsysVars

InitialWidths == {<<2, 100>>, <<5, 100>>}
BranchColors == {<<40, 25, 10>>, <<100, 0, 0>>}

\* TurtleGraphics::setInitialWidth
CallSetInitialWidth ==
    /\ pc \in {"idle", "returned"}
    /\ \E width \in InitialWidths : tg' = [tg EXCEPT !.m_initialWidth = width]
    /\ pc' = "idle"
    /\ UNCHANGED <<input, angleArg, pos, history, runs, entryDepth>>
    /\ UNCHANGED lsysVars

\* TurtleGraphics::setBranchColor
CallSetBranchColor ==
    /\ pc \in {"idle", "returned"}
    /\ \E color \in BranchColors : tg' = [tg EXCEPT !.m_branchColor = color]
    /\ pc' = "idle"
    /\ UNCHANGED <<input, angleArg, pos, history, runs, entryDepth>>
    /\ UNCHANGED lsysVars

\* the values of the UI's width decay slider (0.5 .. 1.0)
WidthDecays == {<<1, 2>>, <<7, 10>>, <<1, 1>>}
WidthSymbols == {"F", "[", "]", "!"}
WidthInputs == StringsUpTo(WidthSymbols, MaxWidthLen)

\* runs of up to MaxShifts color shifts, alone or followed by a drawn segment
ShiftInputs ==
    LET shifts == StringsUpTo({"'"}, MaxShifts)
    IN  shifts \cup {Append(s, "F") : s \in shifts}

\* strings with balanced and unbalanced brackets and an unknown symbol
LoopSymbols == {"F", "[", "]", "X"}
LoopInputs == StringsUpTo(LoopSymbols, MaxLoopLen)

\* TurtleGraphics::setWidthDecay
CallSetWidthDecay ==
    /\ pc \in {"idle", "returned"}
    /\ \E decay \in WidthDecays : tg' = [tg EXCEPT !.m_widthDecay = decay]
    /\ pc' = "idle"
    /\ UNCHANGED <<input, angleArg, pos, history, runs, entryDepth>>
    /\ UNCHANGED lsysVars

-----------------------------------------------------------------------------
(* UI: the "Generar" button of the L-System window *)

\* the while loop of the handler: one line of the rules text per iteration,
\* lines ending at '\n' or ','
RECURSIVE parseRules(_, _, _)
parseRules(e, rulesStr, p) ==
    IF ~(p < Len(rulesStr)) THEN e
    ELSE LET lineEndNewline == find(rulesStr, <<"\n">>, p)
             lineEndComma == find(rulesStr, <<",">>, p)
             nearest == minSizeT(lineEndNewline, lineEndComma)
             lineEnd == IF nearest = npos THEN Len(rulesStr) ELSE nearest
             rawLine == substrCount(rulesStr, p, lineEnd - p)
             start == find_first_not_of(rawLine, Blanks)
             line == IF start # npos THEN substr(rawLine, start) ELSE rawLine
             arrowPos == find(line, Arrow, 0)
         IN  parseRules(IF arrowPos # npos /\ arrowPos > 0
                        THEN addRule(e, line[1], substr(line, arrowPos + 2))
                        ELSE e,
                        rulesStr, lineEnd + 1)

\* the handler without its clearRules() call
GenerarKeepsRules(e, m_axiom, m_rules, m_angle, m_generations) ==
    generate(setAngle(parseRules(setAxiom(e, m_axiom), m_rules, 0), m_angle),
             m_generations)

\* what the handler does to the LSystem: setAxiom, clearRules, one addRule
\* per rule line, setAngle, generate
Generar(e, m_axiom, m_rules, m_angle, m_generations) ==
    generate(setAngle(parseRules(clearRules(setAxiom(e, m_axiom)), m_rules, 0), m_angle),
             m_generations)

\* the snapshots of a whole interpret() run: before each command and at the end
RECURSIVE Snapshots(_, _, _, _)
Snapshots(t, lsystemString, i, angle) ==
    IF i > Len(lsystemString) THEN <<Snap(t)>>
    ELSE <<Snap(t)>> \o Snapshots(processCommand(t, lsystemString[i], angle),
                                   lsystemString, i + 1, angle)

\* contents of the axiom and rules text boxes, the angle slider (a multiple
\* of 90 within its range 1 .. 120) and the generations slider (from 1)
UIAxioms == {<<"F">>, <<"A">>, <<"A", "B">>}
UIRules ==
    { <<>>,
      <<"F", "-", ">", "F", "+", "F">>,
      <<"A", "-", ">", "A", "B", ",", "B", "-", ">", "A">>,
      <<"A", "-", ">", "A", "B", "\n", "B", "-", ">", "A", "\n">>,
      <<" ", "A", "-", ">", "B", ",", " ", "-", ">", "A", ",", "A", "B", ",", ",", "\t", "B", "-", ">", "B", "B">>,
      <<"B", "-", ">", "A", "-", ">", "B", "\n", " ", "\n", "B", "-", ">", "B">> }
UIAngles == {90}

\* the plant of main() and of PRESETS[0].  Both give the angle 22.5F; the
\* turtle of this model turns by quarter turns only, so the plant's angle
\* stands as 90 on both sides.  Generations beyond MaxPlantGen are not
\* explored.
PlantAngle == 90
StartupAxiom == <<"A">>
StartupReplacement ==
    <<"F", "[", "&", "F", "L", "!", "A", "]", "/", "/", "/", "/", "/", "[",
      "&", "F", "L", "!", "A", "]", "/", "/", "/", "/", "/", "/", "/", "[",
      "&", "F", "L", "!", "A", "]">>
StartupGenerations == 6
Preset0Generations == 6
Preset0 ==
    [axiom |-> <<"A">>,
     rules |->
         <<"A", "-", ">", "F", "[", "&", "F", "L", "L", "!", "A", "]", "/", "/",
           "/", "/", "/", "[", "&", "F", "L", "L", "!", "A", "]", "/", "/", "/",
           "/", "/", "/", "/", "[", "&", "F", "L", "L", "!", "A", "]">>,
     angle |-> PlantAngle,
     generations |-> Preset0Generations]

\* main(): "Generar Planta Inicial", run once after the objects are built
Startup ==
    /\ lastCall.op = "ctor"
    /\ runs = 0
    /\ pc = "idle"
    /\ LET e == generate(setAngle(addRule(setAxiom(lsys, StartupAxiom), "A",
                                          StartupReplacement),
                                  PlantAngle),
                         Min(StartupGenerations, MaxPlantGen))
           t == [tg EXCEPT !.m_is3D = TRUE]
       IN  /\ lsys' = e
           /\ lastCall' = [op |-> "main", n |-> Min(StartupGenerations, MaxPlantGen),
                           pre |-> lsys]
           /\ tg' = interpret(t, getString(e), getAngle(e))
           /\ input' = getString(e)
           /\ angleArg' = getAngle(e)
           /\ history' = Snapshots(interpretBegin(t), getString(e), 1, getAngle(e))
    /\ pos' = Len(input') + 1
    /\ pc' = "returned"
    /\ runs' = runs + 1
    /\ entryDepth' = Len(tg.m_stateStack)

\* the "Rotaciones 3D" checkbox and the "Rama" color of the window, which
\* exists once main() has generated the initial plant
ToggleRotaciones3D == runs > 0 /\ CallSet3DMode
EditRamaColor == runs > 0 /\ CallSetBranchColor

\* main() adds rules to the engine before the window is first drawn
StartupAddRule == runs = 0 /\ CallAddRule

\* the "Generar" button is pressed
PressGenerar ==
    /\ pc \in {"idle", "returned"}
    /\ runs < MaxPresses
    /\ \E m_axiom \in UIAxioms, m_rules \in UIRules, m_angle \in UIAngles,
          m_generations \in 1 .. MaxUIGen :
           /\ lsys' = Generar(lsys, m_axiom, m_rules, m_angle, m_generations)
           /\ lastCall' = [op |-> "Generar", n |-> m_generations, pre |-> lsys,
                           axiom |-> m_axiom, rules |-> m_rules, angle |-> m_angle]
           /\ tg' = interpret(tg, getString(lsys'), m_angle)
           /\ input' = getString(lsys')
           /\ angleArg' = m_angle
           /\ history' = Snapshots(interpretBegin(tg), getString(lsys'), 1, m_angle)
    /\ pos' = Len(input') + 1
    /\ pc' = "returned"
    /\ runs' = runs + 1
    /\ entryDepth' = Len(tg.m_stateStack)

-----------------------------------------------------------------------------
(* Claims about LSystem *)

\* what one symbol becomes in a rewriting pass
Image(rules, c) == IF c \in DOMAIN rules THEN rules[c] ELSE <<c>>

\* one parallel rewriting pass: the images of the symbols, in order
RECURSIVE ParallelRewrite(_, _)
ParallelRewrite(rules, s) ==
    IF s = <<>> THEN <<>>
    ELSE Image(rules, Head(s)) \o ParallelRewrite(rules, Tail(s))

\* the n-fold parallel rewriting of s
RECURSIVE Derive(_, _, _)
Derive(rules, s, n) ==
    IF n = 0 THEN s ELSE Derive(rules, ParallelRewrite(rules, s), n - 1)

AfterGenerate == lastCall.op = "generate"

\* C1: for every axiom, rule map and n >= 0, generate(n) leaves getString()
\* equal to the n-fold parallel rewriting of the axiom (each symbol replaced
\* by its rule's replacement, or kept when it has no rule; inserted text is
\* not rewritten again in the same pass) and getGeneration() equal to n.
C1_GenerateIsNFoldRewriting ==
    (AfterGenerate /\ lastCall.n >= 0) =>
        /\ getString(lsys) = Derive(lsys.rules, lsys.axiom, lastCall.n)
        /\ getGeneration(lsys) = lastCall.n

\* C1 witness: generate(n), n >= 2, on an axiom with a symbol that has a
\* growing rule and a symbol that has none.
C1_Witness ==
    /\ AfterGenerate
    /\ lastCall.n >= 2
    /\ lsys.axiom = <<"A", "B">>
    /\ DOMAIN lsys.rules = {"A"}
    /\ lsys.rules["A"] = <<"A", "B">>
    /\ getString(lsys) = <<"A", "B", "B", "B">>

AlgaeRules == [c \in {"A", "B"} |-> IF c = "A" THEN <<"A", "B">> ELSE <<"A">>]
AlgaeWords ==
    << <<"A">>,
       <<"A", "B">>,
       <<"A", "B", "A">>,
       <<"A", "B", "A", "A", "B">>,
       <<"A", "B", "A", "A", "B", "A", "B", "A">> >>

\* C2: with axiom A and rules {A->AB, B->A}, generate(n) for n = 0..4 yields
\* exactly A, AB, ABA, ABAAB, ABAABABA (lengths 1, 2, 3, 5, 8).
C2_AlgaeGenerations ==
    (/\ AfterGenerate
     /\ lastCall.n \in 0 .. 4
     /\ lsys.axiom = <<"A">>
     /\ lsys.rules = AlgaeRules) =>
        /\ getString(lsys) = AlgaeWords[lastCall.n + 1]
        /\ Len(getString(lsys)) = <<1, 2, 3, 5, 8>>[lastCall.n + 1]

\* C2 witness: generate(4) of the algae system has just returned.
C2_Witness ==
    /\ AfterGenerate
    /\ lastCall.n = 4
    /\ lsys.axiom = <<"A">>
    /\ lsys.rules = AlgaeRules
    /\ Len(getString(lsys)) = 8

\* a fresh engine given the axiom and the rules through the public setters
RECURSIVE AddRules(_, _, _)
AddRules(e, rules, todo) ==
    IF todo = {} THEN e
    ELSE LET c == CHOOSE x \in todo : TRUE
         IN  AddRules(addRule(e, c, rules[c]), rules, todo \ {c})

FreshEngine(axiom, rules) ==
    AddRules(setAxiom(LSystemCtor, axiom), rules, DOMAIN rules)

\* C3: generate(n) depends only on the axiom, the rules and n: after any
\* sequence of calls it produces the string and generation counter that
\* generate(n) produces on a fresh engine with that axiom and those rules.
C3_GenerateIgnoresEarlierCalls ==
    AfterGenerate =>
        LET fresh == generate(FreshEngine(lsys.axiom, lsys.rules), lastCall.n)
        IN  /\ getString(lsys) = getString(fresh)
            /\ getGeneration(lsys) = getGeneration(fresh)

\* C3 witness: generate(n), n >= 1, called on an engine whose current string
\* was an expansion left by an earlier generate call, and changing it.
C3_Witness ==
    /\ AfterGenerate
    /\ lastCall.n >= 1
    /\ lastCall.pre.currentGeneration >= 1
    /\ lastCall.pre.currentString # lastCall.pre.axiom
    /\ lastCall.pre.axiom = lsys.axiom
    /\ lastCall.pre.rules = lsys.rules
    /\ getString(lsys) # lastCall.pre.currentString
    /\ getString(lsys) # lsys.axiom

-----------------------------------------------------------------------------
(* Claims about TurtleGraphics *)

\* the positions of the commands processed so far in the running / last run
Processed == 1 .. (pos - 1)

\* interpret() has returned
Finished == pc = "returned"

\* number of occurrences of c among the first k symbols of s
Count(s, k, c) == Cardinality({i \in 1 .. k : s[i] = c})

\* '[' minus ']' among the first k symbols of s
NetDepth(s, k) == Count(s, k, "[") - Count(s, k, "]")

Balanced(s) ==
    /\ \A k \in 0 .. Len(s) : NetDepth(s, k) >= 0
    /\ NetDepth(s, Len(s)) = 0

\* the position of the '[' that the ']' at position j closes (0: none):
\* the nearest '[' to the left that is not closed before j
RECURSIVE ScanOpen(_, _, _)
ScanOpen(s, k, closed) ==
    IF k = 0 THEN 0
    ELSE IF s[k] = "]" THEN ScanOpen(s, k - 1, closed + 1)
    ELSE IF s[k] = "[" THEN (IF closed = 0 THEN k ELSE ScanOpen(s, k - 1, closed - 1))
    ELSE ScanOpen(s, k - 1, closed)

MatchingOpen(s, j) == ScanOpen(s, j - 1, 0)

\* a balanced string with its bracketed parts (brackets included) removed
RECURSIVE TopLevel(_, _)
TopLevel(s, i) ==
    IF i > Len(s) THEN <<>>
    ELSE (IF NetDepth(s, i - 1) = 0 /\ s[i] \notin {"[", "]"} THEN <<s[i]>> ELSE <<>>)
             \o TopLevel(s, i + 1)

\* the symbols of s that are in the set keep, in order
RECURSIVE Only(_, _)
Only(s, keep) ==
    IF s = <<>> THEN <<>>
    ELSE (IF Head(s) \in keep THEN <<Head(s)>> ELSE <<>>) \o Only(Tail(s), keep)

\* the positions i <= n of s that hold a symbol of the set syms, ascending
RECURSIVE IndicesOf(_, _, _)
IndicesOf(s, n, syms) ==
    IF n = 0 THEN <<>>
    ELSE IndicesOf(s, n - 1, syms) \o (IF s[n] \in syms THEN <<n>> ELSE <<>>)

Pose(state) ==
    [position |-> state.position, heading |-> state.heading,
     left |-> state.left, up |-> state.up]

ForkExample == <<"F", "[", "+", "F", "]", "[", "-", "F", "]", "F">>

\* C4: a ']' that finds the stack non-empty makes the whole current state
\* (position, heading, left, up, width, color, depth) equal to the state
\* immediately before the matching '['; so a bracket-balanced string ends
\* with the position and orientation of the string without its bracketed
\* parts, and F[+F][-F]F ends 2 steps along the initial heading, unrotated.
C4_PopRestoresForkState ==
    /\ \A j \in Processed :
           (input[j] = "]" /\ history[j].m_stateStack # <<>>) =>
               /\ MatchingOpen(input, j) > 0
               /\ history[j + 1].m_currentState =
                      history[MatchingOpen(input, j)].m_currentState
    /\ (Finished /\ Balanced(input)) =>
           Pose(tg.m_currentState) =
               Pose(interpret(tg, TopLevel(input, 1), angleArg).m_currentState)
    /\ (Finished /\ input = ForkExample) =>
           Pose(tg.m_currentState) =
               [position |-> <<0, 2 * tg.m_stepSize, 0>>, heading |-> <<0, 1, 0>>,
                left |-> <<-1, 0, 0>>, up |-> <<0, 0, 1>>]

\* C4 witness: F[+F][-F]F was interpreted: both pops restored the state at
\* the fork, one step up, and the turtle ended two steps up.
C4_Witness ==
    /\ Finished
    /\ input = ForkExample
    /\ angleArg = 90
    /\ history[6].m_currentState = history[2].m_currentState
    /\ history[5].m_currentState # history[2].m_currentState
    /\ tg.m_currentState.position = <<0, 16, 0>>
    /\ Len(tg.m_branches) = 4

\* C5: the branch list holds exactly one record per occurrence of F, G, A or
\* B, in the order of those occurrences (the i-th record starts where the
\* turtle stood before the i-th draw-forward symbol, with its width and
\* color); no other symbol adds, removes or reorders branch records.
C5_OneBranchPerDrawSymbol ==
    LET at == IndicesOf(input, pos - 1, DrawSymbols)
    IN  /\ Len(tg.m_branches) = Len(at)
        /\ \A i \in 1 .. Len(at) :
               /\ tg.m_branches[i].start = history[at[i]].m_currentState.position
               /\ tg.m_branches[i].end = history[at[i] + 1].m_currentState.position
               /\ tg.m_branches[i].radiusStart = history[at[i]].m_currentState.width
               /\ tg.m_branches[i].color = history[at[i]].m_currentState.color
        /\ \A j \in Processed :
               IF input[j] \in DrawSymbols
               THEN /\ Len(history[j + 1].m_branches) = Len(history[j].m_branches) + 1
                    /\ SubSeq(history[j + 1].m_branches, 1, Len(history[j].m_branches))
                           = history[j].m_branches
               ELSE history[j + 1].m_branches = history[j].m_branches

\* C5 witness: A[G]]B was interpreted: three records, one per draw symbol,
\* around a push, a pop and a dangling ']'.
C5_Witness ==
    /\ Finished
    /\ input = <<"A", "[", "G", "]", "]", "B">>
    /\ Len(tg.m_branches) = 3
    /\ tg.m_branches[3].start = tg.m_branches[1].end
    /\ tg.m_branches[2].start = tg.m_branches[1].end

\* C6: the decoration list holds exactly one record per occurrence of L, l,
\* K or k, in command order, tagged 0 (leaf) for L or l and 1 (flower) for
\* K or k.
C6_DecorationPerSymbolAndType ==
    LET at == IndicesOf(input, pos - 1, LeafSymbols \cup FlowerSymbols)
    IN  /\ Len(tg.m_decorations) = Len(at)
        /\ \A i \in 1 .. Len(at) :
               /\ tg.m_decorations[i].type = (IF input[at[i]] \in LeafSymbols THEN 0 ELSE 1)
               /\ tg.m_decorations[i].position = history[at[i]].m_currentState.position
        /\ \A j \in Processed :
               input[j] \notin LeafSymbols \cup FlowerSymbols =>
                   history[j + 1].m_decorations = history[j].m_decorations

\* C6 witness: a flower symbol followed by a leaf symbol was interpreted.
C6_Witness ==
    /\ Finished
    /\ input = <<"k", "L">>
    /\ Len(tg.m_decorations) = 2
    /\ tg.m_decorations[1].type = 1
    /\ tg.m_decorations[2].type = 0

\* a newly constructed interpreter given the configuration of t
FreshTurtle(t) ==
    [TurtleGraphicsCtor EXCEPT !.m_is3D = t.m_is3D,
                               !.m_stepSize = t.m_stepSize,
                               !.m_initialWidth = t.m_initialWidth,
                               !.m_widthDecay = t.m_widthDecay,
                               !.m_leafSize = t.m_leafSize,
                               !.m_branchColor = t.m_branchColor,
                               !.m_leafColor = t.m_leafColor,
                               !.m_flowerColor = t.m_flowerColor]

\* C7: every interpret() run starts from the default turtle state (origin,
\* canonical frame, configured initial width and branch color, depth 0), an
\* empty stack and empty lists, so its result is the one a newly constructed
\* interpreter with the same configuration gives for the same string and
\* angle, whatever earlier runs left behind.
C7_EachRunStartsFresh ==
    /\ (pc = "running" /\ pos = 1) =>
           Snap(tg) = [m_currentState |->
                           [position |-> <<0, 0, 0>>, heading |-> <<0, 1, 0>>,
                            left |-> <<-1, 0, 0>>, up |-> <<0, 0, 1>>,
                            width |-> tg.m_initialWidth, color |-> tg.m_branchColor,
                            depth |-> 0],
                       m_stateStack |-> <<>>,
                       m_branches |-> <<>>,
                       m_decorations |-> <<>>]
    /\ Finished => Snap(tg) = Snap(interpret(FreshTurtle(tg), input, angleArg))

\* C7 witness: a second run that begins with ']' and then draws, called
\* while the previous run's unmatched '[' was still on the stack.
C7_Witness ==
    /\ Finished
    /\ runs = 2
    /\ entryDepth > 0
    /\ input = <<"]", "F">>
    /\ tg.m_branches[1].start = <<0, 0, 0>>
    /\ tg.m_initialWidth # TurtleStateDefault.width

\* C8: a ']' processed while the stack is empty changes nothing: the turtle
\* state, the stack and both geometry lists are as before, and the loop goes
\* on to the next symbol.
C8_DanglingPopIsNoOp ==
    /\ Len(history) = pos
    /\ \A j \in Processed :
           (input[j] = "]" /\ history[j].m_stateStack = <<>>) =>
               history[j + 1] = history[j]

\* C8 witness: F]F was interpreted; the ']' met an empty stack after the
\* turtle had moved, and the F after it was drawn.
C8_Witness ==
    /\ Finished
    /\ input = <<"F", "]", "F">>
    /\ history[2].m_stateStack = <<>>
    /\ history[2].m_currentState # TurtleStateDefault
    /\ Len(tg.m_branches) = 2

\* C9: a symbol outside the command vocabulary (X, Y, S) leaves the turtle
\* state, the stack and both geometry lists unchanged, so a string gives the
\* same result as the string with those symbols deleted.
C9_UnknownSymbolsIgnored ==
    /\ \A j \in Processed :
           input[j] \notin Commands => history[j + 1] = history[j]
    /\ Finished => Snap(tg) = Snap(interpret(tg, Only(input, Commands), angleArg))

\* C9 witness: FX[Y+F]SF was interpreted and drew its three segments.
C9_Witness ==
    /\ Finished
    /\ input = <<"F", "X", "[", "Y", "+", "F", "]", "S", "F">>
    /\ Len(tg.m_branches) = 3
    /\ Only(input, Commands) = <<"F", "[", "+", "F", "]", "F">>

\* C10: in 2D mode the pitch commands & and ^ and the roll commands \ and /
\* are no-ops: they leave heading, left, up and the rest of the turtle state
\* unchanged.
C10_PitchRollNoOpIn2D ==
    (pc = "running" /\ ~tg.m_is3D) =>
        \A j \in Processed :
            input[j] \in PitchRollSymbols => history[j + 1] = history[j]

\* C11: in 2D mode the output is planar: the turtle position and the start
\* and end point of every emitted branch have z-coordinate 0.
C11_PlanarIn2D ==
    (pc \in {"running", "returned"} /\ ~tg.m_is3D) =>
        /\ tg.m_currentState.position[3] = 0
        /\ \A i \in 1 .. Len(tg.m_branches) :
               tg.m_branches[i].start[3] = 0 /\ tg.m_branches[i].end[3] = 0

\* heading, left and up are mutually orthogonal unit vectors
Orthonormal(state) ==
    /\ Dot(state.heading, state.heading) = 1
    /\ Dot(state.left, state.left) = 1
    /\ Dot(state.up, state.up) = 1
    /\ Dot(state.heading, state.left) = 0
    /\ Dot(state.heading, state.up) = 0
    /\ Dot(state.left, state.up) = 0

\* C12: after every command, in 2D and in 3D mode, heading, left and up are
\* mutually orthogonal unit vectors.
C12_FrameStaysOrthonormal ==
    pc \in {"running", "returned"} =>
        \A j \in 1 .. Len(history) : Orthonormal(history[j].m_currentState)

\* a <= b for fractions with positive denominators
FracLeq(a, b) == a[1] * b[2] <= b[1] * a[2]

\* the branch record emitted by the draw-forward symbol at position j
BranchAt(j) == history[j + 1].m_branches[Len(history[j + 1].m_branches)]

\* the draw-forward symbols at positions i < j lie on one chain: no ']' is
\* processed between them
OnChain(i, j) ==
    /\ i \in Processed /\ j \in Processed /\ i < j
    /\ input[i] \in DrawSymbols /\ input[j] \in DrawSymbols
    /\ \A k \in (i + 1) .. (j - 1) : input[k] # "]"

\* i is the branch enclosing j: the last branch drawn before the last '['
\* that precedes j, on one chain with j
Encloses(i, j) ==
    /\ OnChain(i, j)
    /\ \E k \in (i + 1) .. (j - 1) :
           /\ input[k] = "["
           /\ \A m \in (i + 1) .. (k - 1) : input[m] \notin DrawSymbols
           /\ \A m \in (k + 1) .. (j - 1) : input[m] # "["

\* C13 as stated: along a chain of pushes with no pop in between, a branch
\* drawn after a push starts with a radius of at most the enclosing branch's
\* end radius times widthDecay, and start radii never increase.
C13_StartWithinDecayedEndRadius ==
    pc \in {"running", "returned"} =>
        \A i, j \in Processed :
            /\ Encloses(i, j) =>
                   FracLeq(BranchAt(j).radiusStart,
                           FracMul(BranchAt(i).radiusEnd, tg.m_widthDecay))
            /\ OnChain(i, j) =>
                   FracLeq(BranchAt(j).radiusStart, BranchAt(i).radiusStart)

\* C13, amended: along a chain of pushes with no pop in between, a branch
\* drawn after a push starts with a radius of at most the enclosing branch's
\* end radius, the two being equal when the push is all that lies between
\* the two branches, and start radii never increase along the chain (width
\* decay in 0.5 .. 1.0).
C13_StartWithinEndRadius ==
    pc \in {"running", "returned"} =>
        \A i, j \in Processed :
            /\ Encloses(i, j) =>
                   /\ FracLeq(BranchAt(j).radiusStart, BranchAt(i).radiusEnd)
                   /\ j = i + 2 => BranchAt(j).radiusStart = BranchAt(i).radiusEnd
            /\ OnChain(i, j) =>
                   FracLeq(BranchAt(j).radiusStart, BranchAt(i).radiusStart)

\* C13 witness: F[F was interpreted with decay 0.7: the inner branch starts
\* as thick as its enclosing branch ends, thinner than that one started.
C13_Witness ==
    /\ Finished
    /\ input = <<"F", "[", "F">>
    /\ tg.m_widthDecay = <<7, 10>>
    /\ Encloses(1, 3)
    /\ BranchAt(3).radiusStart = BranchAt(1).radiusEnd
    /\ ~FracLeq(BranchAt(1).radiusStart, BranchAt(3).radiusStart)

-----------------------------------------------------------------------------
(* Claims about reset, clearRules and loadRules *)

KochAxiom == <<"F">>
KochReplacement == <<"F", "+", "F", "-", "-", "F", "+", "F">>
KochRules == [c \in {"F"} |-> KochReplacement]

\* generate(n), 0 <= n <= 2, has just run on the Koch system
KochGenerated ==
    /\ AfterGenerate
    /\ lastCall.n \in 0 .. 2
    /\ lsys.axiom = KochAxiom
    /\ lsys.rules = KochRules

\* C14 as stated: with axiom F and the single rule F->F+F--F+F the string
\* lengths after generate(0), generate(1), generate(2) are 1, 5 and 25;
\* generation 1 is F+F--F+F and generation 2 is generation 1 with every F
\* replaced by the rule's right-hand side.
C14_KochLengths_1_5_25 ==
    KochGenerated =>
        /\ Len(getString(lsys)) = <<1, 5, 25>>[lastCall.n + 1]
        /\ lastCall.n = 1 => getString(lsys) = KochReplacement
        /\ lastCall.n = 2 =>
               getString(lsys) = ParallelRewrite(KochRules, KochReplacement)

\* C14, amended: the lengths are 1, 8 and 36 (F+F--F+F has 8 symbols, 4 of
\* them F, so generation 2 has 4 * 8 + 4 symbols); generation 1 is F+F--F+F
\* and generation 2 is generation 1 with every F replaced by F+F--F+F.
C14_KochLengths_1_8_36 ==
    KochGenerated =>
        /\ Len(getString(lsys)) = <<1, 8, 36>>[lastCall.n + 1]
        /\ lastCall.n = 1 => getString(lsys) = KochReplacement
        /\ lastCall.n = 2 =>
               getString(lsys) = ParallelRewrite(KochRules, KochReplacement)

\* C14 witness: generate(2) on the Koch system gave 36 symbols, 16 of them F.
C14_Witness ==
    /\ KochGenerated
    /\ lastCall.n = 2
    /\ Len(getString(lsys)) = 36
    /\ Count(getString(lsys), 36, "F") = 16
    /\ SubSeq(getString(lsys), 1, 8) = KochReplacement

\* C15: reset() sets the current string to the axiom and the generation
\* counter to 0, whatever the rules and the earlier generate calls, and
\* leaves axiom, rules and angle unchanged; generate(0) after it yields the
\* axiom with generation counter 0.
C15_ResetRestoresAxiom ==
    lastCall.op = "reset" =>
        /\ getString(lsys) = lastCall.pre.axiom
        /\ getGeneration(lsys) = 0
        /\ getAxiom(lsys) = lastCall.pre.axiom
        /\ lsys.rules = lastCall.pre.rules
        /\ getAngle(lsys) = lastCall.pre.angle
        /\ getString(generate(lsys, 0)) = lastCall.pre.axiom
        /\ getGeneration(generate(lsys, 0)) = 0

\* C15 witness: reset() was called on an engine with rules, two or more
\* generations in and a current string other than the axiom.
C15_Witness ==
    /\ lastCall.op = "reset"
    /\ lastCall.pre.rules # EmptyRules
    /\ lastCall.pre.currentGeneration >= 2
    /\ lastCall.pre.currentString # lastCall.pre.axiom
    /\ lastCall.pre.angle # 0
    /\ getString(lsys) = getAxiom(lsys)
    /\ getGeneration(lsys) = 0

\* C16: clearRules() empties the rule map and changes nothing else: axiom,
\* current string, generation counter and angle are as before, also when the
\* current string was produced by the rules being cleared.
C16_ClearRulesOnlyClearsRules ==
    lastCall.op = "clearRules" =>
        /\ lsys.rules = EmptyRules
        /\ getAxiom(lsys) = lastCall.pre.axiom
        /\ getString(lsys) = lastCall.pre.currentString
        /\ getGeneration(lsys) = lastCall.pre.currentGeneration
        /\ getAngle(lsys) = lastCall.pre.angle

\* C16 witness: clearRules() was called when the current string was the
\* product of two or more generations under the rules it cleared.
C16_Witness ==
    /\ lastCall.op = "clearRules"
    /\ lastCall.pre.rules # EmptyRules
    /\ lastCall.pre.currentGeneration >= 2
    /\ lastCall.pre.currentString =
           Derive(lastCall.pre.rules, lastCall.pre.axiom, lastCall.pre.currentGeneration)
    /\ getString(lsys) # getAxiom(lsys)
    /\ getGeneration(lsys) = lastCall.pre.currentGeneration
    /\ lsys.rules = EmptyRules

AfterLoadRules == lastCall.op = "loadRules"

\* C17: when loadRules cannot open the file it returns false and leaves the
\* whole engine state unchanged: axiom, rules (not cleared), angle, current
\* string and generation counter are as before the call.
C17_FailedOpenChangesNothing ==
    (AfterLoadRules /\ ~lastCall.file.exists) =>
        /\ lastCall.result = "false"
        /\ lsys = lastCall.pre

\* C17 witness: loadRules failed to open its file on an engine that had
\* rules and was two generations in.
C17_Witness ==
    /\ AfterLoadRules
    /\ ~lastCall.file.exists
    /\ lastCall.result = "false"
    /\ lsys.rules # EmptyRules
    /\ getGeneration(lsys) = 2
    /\ getString(lsys) # getAxiom(lsys)

\* C18: for every file that can be opened, whatever its lines contain (an
\* angle: line whose value is not a number included), loadRules returns true
\* and does not end by an exception; only a file that cannot be opened makes
\* it fail, and that is reported by the result false.
C18_OnlyOpenFailureFails ==
    AfterLoadRules =>
        /\ lastCall.file.exists => lastCall.result = "true"
        /\ ~lastCall.file.exists => lastCall.result = "false"

\* a line without its leading spaces and tabs
RECURSIVE Trimmed(_)
Trimmed(line) ==
    IF line # <<>> /\ Head(line) \in Blanks THEN Trimmed(Tail(line)) ELSE line

HasPrefix(s, p) == Len(s) >= Len(p) /\ SubSeq(s, 1, Len(p)) = p

\* "->" stands at the i-th and (i+1)-th character of s
ArrowAt(s, i) == i + 1 <= Len(s) /\ s[i] = "-" /\ s[i + 1] = ">"

\* the place of the first "->" of s (0: there is none)
FirstArrow(s) ==
    IF \E i \in 1 .. Len(s) : ArrowAt(s, i)
    THEN CHOOSE i \in 1 .. Len(s) :
             ArrowAt(s, i) /\ \A k \in 1 .. (i - 1) : ~ArrowAt(s, k)
    ELSE 0

\* everything after the first "->"
AfterFirstArrow(s) == SubSeq(s, FirstArrow(s) + 2, Len(s))

\* the rule map a list of lines stands for, given which trimmed lines count
\* as rule lines: key = first character, replacement = the text after the
\* first "->", the last line of a key deciding
RulesOf(lines, IsRuleLine(_)) ==
    LET at == {i \in 1 .. Len(lines) : IsRuleLine(Trimmed(lines[i]))}
        keys == {Trimmed(lines[i])[1] : i \in at}
        lastOf(c) == CHOOSE i \in at :
                         /\ Trimmed(lines[i])[1] = c
                         /\ \A k \in at : Trimmed(lines[k])[1] = c => k <= i
    IN  [c \in keys |-> AfterFirstArrow(Trimmed(lines[lastOf(c)]))]

\* a non-blank line that contains "->" at a (0-based) position greater than 0
ContainsArrowAfterStart(t) == t # <<>> /\ \E i \in 2 .. Len(t) : ArrowAt(t, i)

\* a non-blank line that is no axiom: or angle: line and whose first "->" is
\* at a (0-based) position greater than 0
RuleLine(t) ==
    /\ t # <<>>
    /\ ~HasPrefix(t, AxiomPrefix)
    /\ ~HasPrefix(t, AnglePrefix)
    /\ FirstArrow(t) > 1

\* an angle: line whose value std::stof cannot convert
BadAngleLine(t) == HasPrefix(t, AnglePrefix) /\ stof(substr(t, PREFIX_LENGTH)).threw

\* the lines loadRules gets to: all of them, or those before the first bad
\* angle: line
LinesRead(lines) ==
    LET bad == {i \in 1 .. Len(lines) : BadAngleLine(Trimmed(lines[i]))}
    IN  IF bad = {} THEN lines ELSE SubSeq(lines, 1, MinOf(bad) - 1)

\* C19 as stated: in loadRules, after leading spaces and tabs are removed, a
\* non-blank line is stored as a rule exactly when it contains "->" at a
\* position greater than 0; the key is its first character and the
\* replacement is everything after the first "->".
C19_RuleIffArrowAfterStart ==
    (AfterLoadRules /\ lastCall.result = "true") =>
        lsys.rules = RulesOf(lastCall.file.lines, ContainsArrowAfterStart)

\* C19, amended: of the lines loadRules reads, a non-blank line that does
\* not begin with axiom: or angle: is stored as a rule exactly when its
\* first "->" is at a position greater than 0; the key is its first
\* character and the replacement is everything after that first "->".
C19_RuleIffFirstArrowAfterStart ==
    (AfterLoadRules /\ lastCall.file.exists) =>
        lsys.rules = RulesOf(LinesRead(lastCall.file.lines), RuleLine)

\* C19 witness: a file with the lines A->B->C, ->A, ->A->B, AB and B-> was
\* loaded: A maps to B->C, B to the empty string, and nothing else is a rule.
C19_Witness ==
    /\ AfterLoadRules
    /\ lastCall.file.lines = RulesOnlyFile
    /\ lastCall.result = "true"
    /\ DOMAIN lsys.rules = {"A", "B"}
    /\ lsys.rules["A"] = <<"B", "-", ">", "C">>
    /\ lsys.rules["B"] = <<>>
    /\ lastCall.pre.rules # EmptyRules

-----------------------------------------------------------------------------
(* Claims about the UI *)

AfterGenerar == lastCall.op = "Generar"

\* the pieces of a text between its newlines and commas
RECURSIVE Pieces(_, _, _)
Pieces(text, i, piece) ==
    IF i > Len(text) THEN <<piece>>
    ELSE IF text[i] \in {"\n", ","} THEN <<piece>> \o Pieces(text, i + 1, <<>>)
    ELSE Pieces(text, i + 1, Append(piece, text[i]))

\* a line whose first "->" is at a (0-based) position greater than 0
ArrowLine(t) == FirstArrow(t) > 1

\* C20: each press of the Generar button rebuilds the rule set from the
\* rules text alone: afterwards the rules are exactly those of the newline-
\* or comma-separated lines of the text that have "->" at a position
\* greater than 0, no earlier rule survives, and the interpreted string is
\* generate(generations) of the text's axiom under those rules.
C20_GenerarRebuildsRules ==
    AfterGenerar =>
        /\ lsys.rules = RulesOf(Pieces(lastCall.rules, 1, <<>>), ArrowLine)
        /\ \A c \in DOMAIN lsys.rules :
               \E i \in 1 .. Len(lastCall.rules) : lastCall.rules[i] = c
        /\ getAxiom(lsys) = lastCall.axiom
        /\ getString(lsys) = Derive(lsys.rules, lastCall.axiom, lastCall.n)
        /\ pc = "returned"
        /\ input = getString(lsys)
        /\ Snap(tg) = Snap(interpret(FreshTurtle(tg), input, lastCall.angle))

\* C20 witness: the button was pressed a second time, with axiom F and the
\* text F->F+F, on an engine that held rules for A and B: only the rule for
\* F is left and the 7 symbols of generation 2 were interpreted.
C20_Witness ==
    /\ AfterGenerar
    /\ runs = 2
    /\ lastCall.n = 2
    /\ lastCall.axiom = <<"F">>
    /\ {"A", "B"} \subseteq DOMAIN lastCall.pre.rules
    /\ lsys.rules = [c \in {"F"} |-> <<"F", "+", "F">>]
    /\ input = <<"F", "+", "F", "+", "F", "+", "F">>
    /\ Len(tg.m_branches) = 4

-----------------------------------------------------------------------------
(* Claims about single commands *)

\* C21: a draw-forward command (F, G, A, B) appends the record {start =
\* position, end = position + heading * stepSize, radiusStart = width,
\* radiusEnd = width * widthDecay, color = current color}, sets position to
\* end and changes nothing else: heading, left, up, width, color, depth, the
\* stack and the decorations are as before.
C21_DrawForwardRecord ==
    pc \in {"running", "returned"} =>
        \A j \in Processed :
            input[j] \in DrawSymbols =>
                LET before == history[j].m_currentState
                    end == VAdd(before.position, VScale(before.heading, tg.m_stepSize))
                IN  /\ history[j + 1].m_branches =
                           Append(history[j].m_branches,
                                  [start |-> before.position,
                                   end |-> end,
                                   radiusStart |-> before.width,
                                   radiusEnd |-> FracMul(before.width, tg.m_widthDecay),
                                   color |-> before.color])
                    /\ history[j + 1].m_currentState = [before EXCEPT !.position = end]
                    /\ history[j + 1].m_stateStack = history[j].m_stateStack
                    /\ history[j + 1].m_decorations = history[j].m_decorations

\* C21 witness: [+F was interpreted: the F was drawn from a
\* turned, decayed, nested state with a state on the stack.
C21_Witness ==
    /\ Finished
    /\ input = <<"[", "+", "F">>
    /\ Len(tg.m_branches) = 1
    /\ tg.m_branches[1].end # <<0, tg.m_stepSize, 0>>
    /\ tg.m_branches[1].radiusStart = FracMul(tg.m_initialWidth, tg.m_widthDecay)
    /\ tg.m_currentState.depth = 1
    /\ Len(tg.m_stateStack) = 1

\* C22: a '[' pushes a copy of the state as it was before the command
\* (undecayed width, old depth), then adds 1 to the current depth and
\* multiplies the current width by widthDecay; position, heading, left, up
\* and color are unchanged and no geometry is emitted.
C22_PushCopiesThenDecays ==
    pc \in {"running", "returned"} =>
        \A j \in Processed :
            input[j] = "[" =>
                LET before == history[j].m_currentState
                IN  /\ history[j + 1].m_stateStack = Append(history[j].m_stateStack, before)
                    /\ history[j + 1].m_currentState =
                           [before EXCEPT !.depth = before.depth + 1,
                                          !.width = FracMul(before.width, tg.m_widthDecay)]
                    /\ history[j + 1].m_branches = history[j].m_branches
                    /\ history[j + 1].m_decorations = history[j].m_decorations

\* C22 witness: F+[[ was interpreted: the second '[' pushed the state of
\* depth 1 with one decay of width, and left depth 2 with two.
C22_Witness ==
    /\ Finished
    /\ input = <<"F", "+", "[", "[">>
    /\ Len(tg.m_stateStack) = 2
    /\ tg.m_stateStack[2].depth = 1
    /\ tg.m_stateStack[2].width = FracMul(tg.m_initialWidth, tg.m_widthDecay)
    /\ tg.m_stateStack[1].width = tg.m_initialWidth
    /\ tg.m_currentState.depth = 2
    /\ tg.m_currentState.position # <<0, 0, 0>>
    /\ Len(tg.m_branches) = 1

\* v turned by half a turn about the unit vector k: 2 (k . v) k - v
HalfTurn(v, k) == VAdd(VScale(k, 2 * Dot(k, v)), VScale(v, -1))

\* the interpreter with the turtle state of snapshot number j
TurtleAt(j) == [tg EXCEPT !.m_currentState = history[j].m_currentState]

\* C23: '|' turns heading and left by exactly 180 degrees about the yaw axis
\* (up in 3D mode, the fixed vertical axis in 2D mode) whatever the angle
\* parameter is, and changes nothing else; its effect on the turtle state is
\* that of ++ at angle 90.
C23_TurnAroundIsHalfTurn ==
    pc \in {"running", "returned"} =>
        \A j \in Processed :
            input[j] = "|" =>
                LET before == history[j].m_currentState
                    axis == IF tg.m_is3D THEN before.up ELSE <<0, 0, 1>>
                IN  /\ history[j + 1] =
                           [history[j] EXCEPT
                                !.m_currentState.heading = HalfTurn(before.heading, axis),
                                !.m_currentState.left = HalfTurn(before.left, axis)]
                    /\ history[j + 1].m_currentState =
                           processCommand(processCommand(TurtleAt(j), "+", 90), "+", 90)
                               .m_currentState

\* C23 witness: &| was interpreted in 3D mode at angle 90: the '|' turned the
\* pitched heading about the pitched up vector, not about the vertical.
C23_Witness ==
    /\ Finished
    /\ input = <<"&", "|">>
    /\ angleArg = 90
    /\ tg.m_is3D
    /\ history[2].m_currentState.up # <<0, 0, 1>>
    /\ tg.m_currentState.heading = VScale(history[2].m_currentState.heading, -1)
    /\ tg.m_currentState.left = VScale(history[2].m_currentState.left, -1)
    /\ tg.m_currentState.up = history[2].m_currentState.up

\* C24: each ' raises the green channel of the current color by 0.05, capped
\* at 1.0, lowers the red channel by 0.02, floored at 0.0, and leaves blue
\* and everything else unchanged; so after any number of ' commands green is
\* at most 1.0 and red is at least 0.0.
C24_ColorShiftIsClamped ==
    pc \in {"running", "returned"} =>
        /\ \A j \in Processed :
               input[j] = "'" =>
                   LET c == history[j].m_currentState.color
                       red == IF c[1] - 2 < 0 THEN 0 ELSE c[1] - 2
                       green == IF c[2] + 5 > 100 THEN 100 ELSE c[2] + 5
                   IN  history[j + 1] =
                           [history[j] EXCEPT !.m_currentState.color = <<red, green, c[3]>>]
        /\ \A j \in 1 .. Len(history) :
               /\ history[j].m_currentState.color[2] <= 100
               /\ history[j].m_currentState.color[1] >= 0

\* C24 witness: 21 shifts and an F were interpreted from the default branch
\* color: green reached the cap after 15 shifts and red the floor after 20,
\* both stayed there, and the segment was drawn in that color.
C24_Witness ==
    /\ Finished
    /\ Len(input) = 22
    /\ tg.m_branchColor = <<40, 25, 10>>
    /\ history[15].m_currentState.color[2] < 100
    /\ history[16].m_currentState.color[2] = 100
    /\ history[20].m_currentState.color[1] > 0
    /\ history[21].m_currentState.color[1] = 0
    /\ tg.m_branches[1].color = <<0, 100, 10>>

\* C26: the plant generated at program start is the first preset: axiom,
\* rule, angle and generation count of main() equal those of PRESETS[0], so
\* pressing Generar with the untouched initial UI fields gives the same
\* string and the same branch and decoration counts as the startup plant.
C26_StartupPlantIsFirstPreset ==
    lastCall.op = "main" =>
        LET e == Generar(lsys, Preset0.axiom, Preset0.rules, Preset0.angle,
                         Min(Preset0.generations, MaxPlantGen))
            t == interpret(tg, getString(e), Preset0.angle)
        IN  /\ getAxiom(lsys) = Preset0.axiom
            /\ getAngle(lsys) = Preset0.angle
            /\ StartupGenerations = Preset0.generations
            /\ lsys.rules = e.rules
            /\ getString(lsys) = getString(e)
            /\ Len(tg.m_branches) = Len(t.m_branches)
            /\ Len(tg.m_decorations) = Len(t.m_decorations)

-----------------------------------------------------------------------------
(* Claims about whole runs *)

\* the interpreter with the turtle state, stack and lists of snapshot j
TurtleOf(j) ==
    [tg EXCEPT !.m_currentState = history[j].m_currentState,
               !.m_stateStack = history[j].m_stateStack,
               !.m_branches = history[j].m_branches,
               !.m_decorations = history[j].m_decorations]

\* C25: for every finite input string, unbalanced brackets and unknown
\* symbols included, interpret() processes each symbol exactly once in
\* string order and then returns; no input makes it abort, enter an error
\* state or fail to finish.
C25_InterpretTerminates ==
    /\ [](pc \in {"idle", "running", "returned"})
    /\ [](pc = "running" =>
              /\ pos \in 1 .. (Len(input) + 1)
              /\ Len(history) = pos
              /\ \A j \in Processed :
                     history[j + 1] =
                         Snap(processCommand(TurtleOf(j), input[j], angleArg)))
    /\ [](pc = "returned" => pos = Len(input) + 1 /\ Len(history) = pos)
    /\ (pc = "running" ~> pc = "returned")

\* C25 witness: ]X[ was interpreted to its end: a dangling ']', an unknown
\* symbol and an unclosed '['.
C25_Witness ==
    /\ Finished
    /\ input = <<"]", "X", "[">>
    /\ pos = 4
    /\ Len(history) = 4
    /\ Len(tg.m_stateStack) = 1

\* number of '[' among the first k symbols of s not yet closed by a ']';
\* a ']' that finds none open closes nothing
RECURSIVE OpenCount(_, _)
OpenCount(s, k) ==
    IF k = 0 THEN 0
    ELSE LET d == OpenCount(s, k - 1)
         IN  IF s[k] = "[" THEN d + 1
             ELSE IF s[k] = "]" /\ d > 0 THEN d - 1
             ELSE d

\* C28: during interpretation of any string, after every command the
\* current state's depth equals the number of states on the stack, which
\* equals the number of '[' in the processed prefix not yet closed by a ']'
\* (a dangling ']' on an empty stack leaves both at 0); depth is never
\* negative.
C28_DepthIsStackSize ==
    /\ Len(history) = pos
    /\ \A k \in 1 .. pos :
           /\ history[k].m_currentState.depth = Len(history[k].m_stateStack)
           /\ Len(history[k].m_stateStack) = OpenCount(input, k - 1)
           /\ history[k].m_currentState.depth >= 0

\* C28 witness: ][[] was interpreted; the dangling ']' left depth and stack
\* at 0, the two '[' raised both to 2 and the last ']' lowered both to 1.
C28_Witness ==
    /\ Finished
    /\ input = <<"]", "[", "[", "]">>
    /\ history[2].m_currentState.depth = 0
    /\ history[4].m_currentState.depth = 2
    /\ Len(history[4].m_stateStack) = 2
    /\ tg.m_currentState.depth = 1
    /\ Len(tg.m_stateStack) = 1
    /\ NetDepth(input, 4) = 0

\* C29: after any sequence of public LSystem operations, whenever
\* getGeneration() is 0 the current string equals the axiom; a successful
\* loadRules of a file without an axiom: line after generate(n > 0) does not
\* leave generation 0 paired with the old expanded string.
C29_GenerationZeroMeansAxiom ==
    getGeneration(lsys) = 0 => getString(lsys) = getAxiom(lsys)

\* C30: generate(n) with n <= 0 performs no rewriting pass: afterwards
\* getString() equals the axiom and getGeneration() is 0, so the generation
\* counter is never negative after any sequence of operations.
C30_NonPositiveGenerateIsReset ==
    /\ (AfterGenerate /\ lastCall.n <= 0) =>
           /\ getString(lsys) = getAxiom(lsys)
           /\ getAxiom(lsys) = getAxiom(lastCall.pre)
           /\ getGeneration(lsys) = 0
    /\ getGeneration(lsys) >= 0

\* C30 witness: generate(-1) was called on an engine that held a rewritten
\* string of a later generation and a rule for a symbol of the axiom; it
\* left the axiom and generation 0.
C30_Witness ==
    /\ AfterGenerate
    /\ lastCall.n = -1
    /\ getGeneration(lastCall.pre) > 0
    /\ getString(lastCall.pre) # getAxiom(lastCall.pre)
    /\ \E i \in 1 .. Len(getAxiom(lsys)) : getAxiom(lsys)[i] \in DOMAIN lsys.rules
    /\ getString(lsys) = getAxiom(lsys)
    /\ getGeneration(lsys) = 0

TypeIs0(decor) == decor.type = 0
TypeIs1(decor) == decor.type = 1

\* C27: after every interpret() call, in any sequence of calls, the leaf
\* list holds exactly the type-0 records and the flower list exactly the
\* type-1 records of the current decoration list, each in creation order,
\* so leaves.size() + flowers.size() == decorations.size().
C27_ListsPartitionDecorations ==
    Finished =>
        /\ tg.m_leaves = SelectSeq(tg.m_decorations, TypeIs0)
        /\ tg.m_flowers = SelectSeq(tg.m_decorations, TypeIs1)
        /\ Len(tg.m_leaves) + Len(tg.m_flowers) = Len(tg.m_decorations)

-----------------------------------------------------------------------------
(* Specifications *)

Init ==
    /\ lsys = LSystemCtor
    /\ lastCall = [op |-> "ctor", n |-> 0, pre |-> LSystemCtor]
    /\ tg = TurtleGraphicsCtor
    /\ pc = "idle"
    /\ input = <<>>
    /\ angleArg = 0
    /\ pos = 1
    /\ history = <<Snap(TurtleGraphicsCtor)>>
    /\ runs = 0
    /\ entryDepth = 0

NextLSystem ==
    \/ CallSetAxiom
    \/ CallAddRule
    \/ CallClearRules
    \/ CallSetAngle
    \/ CallGenerate(MaxGen)
    \/ CallReset

SpecLSystem == Init /\ [][NextLSystem]_vars

NextTurtle ==
    \/ InterpretBegin(TurtleInputs, Angles, 1)
    \/ InterpretStep
    \/ InterpretEnd
    \/ CallSet3DMode

SpecTurtle == Init /\ [][NextTurtle]_vars

NextRerun ==
    \/ InterpretBegin(RerunInputs, RerunAngles, MaxRuns)
    \/ InterpretStep
    \/ InterpretEnd
    \/ CallSetInitialWidth
    \/ CallSetBranchColor

SpecRerun == Init /\ [][NextRerun]_vars

NextLoad ==
    \/ CallLoadRules
    \/ CallGenerate(MaxLoadGen)
    \/ CallReset
    \/ CallClearRules

SpecLoad == Init /\ [][NextLoad]_vars

NextStartup ==
    \/ Startup
    \/ PressGenerar
    \/ ToggleRotaciones3D
    \/ EditRamaColor

SpecStartup == Init /\ [][NextStartup]_vars

NextLoop ==
    \/ InterpretBegin(LoopInputs, RerunAngles, 1)
    \/ InterpretStep
    \/ InterpretEnd

\* interpret() runs on the calling thread: its loop and its return are not
\* held up
SpecLoop ==
    /\ Init
    /\ [][NextLoop]_vars
    /\ WF_vars(InterpretStep)
    /\ WF_vars(InterpretEnd)

NextColor ==
    \/ InterpretBegin(ShiftInputs, RerunAngles, 1)
    \/ InterpretStep
    \/ InterpretEnd
    \/ CallSetBranchColor

SpecColor == Init /\ [][NextColor]_vars

NextUI ==
    \/ PressGenerar
    \/ StartupAddRule

SpecUI == Init /\ [][NextUI]_vars

NextWidth ==
    \/ InterpretBegin(WidthInputs, RerunAngles, 1)
    \/ InterpretStep
    \/ InterpretEnd
    \/ CallSetWidthDecay

SpecWidth == Init /\ [][NextWidth]_vars

=============================================================================
